---- MODULE Spec2Model ----
(***************************************************************************)
(* A model of logzilla.py: the LogZilla singleton initializer, its         *)
(* section-title and execution-time helpers, and CustomFormatter, together *)
(* with the part of the `logging` runtime they drive (level filtering,     *)
(* handler dispatch and record formatting).                                *)
(*                                                                         *)
(* Text is modelled as a sequence of tokens (strings); concatenation of    *)
(* Python strings is \o on token sequences.                                *)
(***************************************************************************)
EXTENDS Integers, Sequences, FiniteSets, TLC

(***************************************************************************)
(* Bounds of the model.                                                    *)
(***************************************************************************)
\* calls made (and seconds elapsed on the wall clock) before the model stops
MaxClock == 3
\* longest run, in seconds, of a function wrapped by log_execution_time
MaxDuration == 1

(***************************************************************************)
(* Severity levels of the logging runtime.                                 *)
(***************************************************************************)
NOTSET == 0
DEBUG == 10
INFO == 20
WARNING == 30
ERROR == 40
CRITICAL == 50

Levels == {DEBUG, INFO, WARNING, ERROR, CRITICAL}

levelname(l) ==
    CASE l = DEBUG -> "DEBUG"
      [] l = INFO -> "INFO"
      [] l = WARNING -> "WARNING"
      [] l = ERROR -> "ERROR"
      [] l = CRITICAL -> "CRITICAL"
      [] OTHER -> "Level"

(***************************************************************************)
(* Class attributes of LogZilla.                                           *)
(***************************************************************************)
date_format == <<"%Y", "/", "%m", "/", "%d", " ", "%H", ":", "%M", ":", "%S">>

default_prepend_info ==
    <<"%(asctime)s", ": ", "%(filename)s", ":", "%(lineno)s", ": ",
      "%(levelname)s", ": ", "%(message)s">>

simple_prepend_info ==
    <<"%(asctime)s", ": ", "%(levelname)s", ": ", "%(message)s">>

(***************************************************************************)
(* Class attributes of CustomFormatter: the ANSI escape sequences.         *)
(***************************************************************************)
white == "ESC[37;20m"
green == "ESC[32;20m"
blue == "ESC[34;20m"
cyan == "ESC[36;20m"
yellow == "ESC[33;20m"
red == "ESC[31;20m"
bold_red == "ESC[31;1m"
reset == "ESC[0m"

(***************************************************************************)
(* The wall clock.  A reading n of the clock is the instant n seconds      *)
(* after 2024/01/02 03:04:00.005.                                          *)
(***************************************************************************)
TwoDigits(n) ==
    <<"00", "01", "02", "03", "04", "05", "06", "07", "08", "09",
      "10", "11", "12", "13", "14", "15", "16", "17", "18", "19">>[n + 1]

TimeOf(n) ==
    [Y |-> "2024", m |-> "01", d |-> "02", H |-> "03", M |-> "04",
     S |-> TwoDigits(n), msecs |-> "005"]

\* time.strftime: every directive of the format replaced by its field
Directive(tok, t) ==
    CASE tok = "%Y" -> t.Y
      [] tok = "%m" -> t.m
      [] tok = "%d" -> t.d
      [] tok = "%H" -> t.H
      [] tok = "%M" -> t.M
      [] tok = "%S" -> t.S
      [] OTHER -> tok

strftime(fmt, t) == [i \in 1..Len(fmt) |-> Directive(fmt[i], t)]

\* str(datetime.timedelta(seconds=n)): H:MM:SS
OneDigit(n) == <<"0", "1", "2", "3", "4", "5", "6", "7", "8", "9">>[n + 1]

timedelta_str(n) ==
    <<OneDigit(n \div 3600), ":", TwoDigits((n \div 60) % 60), ":",
      TwoDigits(n % 60)>>

(***************************************************************************)
(* The logging runtime: records, formatters, handlers and dispatch.        *)
(***************************************************************************)
\* a LogRecord made at clock reading `now` by the logging call at file:line
LogRecord(level, msg, now, file, line) ==
    [levelno |-> level, msg |-> msg, created |-> now,
     filename |-> file, lineno |-> line]

\* Formatter.formatTime: datefmt when one is set, the runtime's default
\* "%Y-%m-%d %H:%M:%S" followed by ",msecs" when it is not (None or empty)
default_time_format ==
    <<"%Y", "-", "%m", "-", "%d", " ", "%H", ":", "%M", ":", "%S">>

formatTime(rec, datefmt) ==
    IF datefmt # <<>>
    THEN strftime(datefmt, TimeOf(rec.created))
    ELSE strftime(default_time_format, TimeOf(rec.created))
             \o <<",", TimeOf(rec.created).msecs>>

\* one %-field of a format string, filled in from the record
Field(tok, datefmt, rec) ==
    CASE tok = "%(asctime)s" -> formatTime(rec, datefmt)
      [] tok = "%(filename)s" -> <<rec.filename>>
      [] tok = "%(lineno)s" -> <<rec.lineno>>
      [] tok = "%(levelname)s" -> <<levelname(rec.levelno)>>
      [] tok = "%(message)s" -> rec.msg
      [] OTHER -> <<tok>>

\* logging.Formatter(fmt, datefmt).format(record)
RECURSIVE Formatter_format(_, _, _)
Formatter_format(fmt, datefmt, rec) ==
    IF fmt = <<>>
    THEN <<>>
    ELSE Field(Head(fmt), datefmt, rec) \o Formatter_format(Tail(fmt), datefmt, rec)

\* a faulty variant of FORMATS: the colors of WARNING and ERROR exchanged
FORMATS_swapped(fmt) ==
    [l \in Levels |->
        CASE l = DEBUG -> <<cyan>> \o fmt \o <<reset>>
          [] l = INFO -> <<green>> \o fmt \o <<reset>>
          [] l = WARNING -> <<red>> \o fmt \o <<reset>>
          [] l = ERROR -> <<yellow>> \o fmt \o <<reset>>
          [] l = CRITICAL -> <<bold_red>> \o fmt \o <<reset>>]

\* CustomFormatter.__init__: the per-level templates
FORMATS(fmt) ==
    [l \in Levels |->
        CASE l = DEBUG -> <<cyan>> \o fmt \o <<reset>>
          [] l = INFO -> <<green>> \o fmt \o <<reset>>
          [] l = WARNING -> <<yellow>> \o fmt \o <<reset>>
          [] l = ERROR -> <<red>> \o fmt \o <<reset>>
          [] l = CRITICAL -> <<bold_red>> \o fmt \o <<reset>>]

\* CustomFormatter.format: a new logging.Formatter(log_fmt) is built for the
\* record, with no datefmt; FORMATS.get gives None for a level it does not
\* hold, and Formatter(None) formats with "%(message)s"
log_fmt(fmt, levelno) ==
    IF levelno \in DOMAIN FORMATS(fmt)
    THEN FORMATS(fmt)[levelno]
    ELSE <<"%(message)s">>

CustomFormatter_format(fmt, datefmt, rec) ==
    Formatter_format(log_fmt(fmt, rec.levelno), <<>>, rec)

\* the two formatters init_root_logger chooses between
MakeFormatter(color_on, fmt, datefmt) ==
    [custom |-> color_on, fmt |-> fmt, datefmt |-> datefmt]

\* Handler.format: the handler's formatter applied to the record
Handler_format(h, rec) ==
    IF h.formatter.custom
    THEN CustomFormatter_format(h.formatter.fmt, h.formatter.datefmt, rec)
    ELSE Formatter_format(h.formatter.fmt, h.formatter.datefmt, rec)

\* the two loggers used: the root logger, whose level init_root_logger sets,
\* and the module logger logging.getLogger(__name__), whose level is never
\* set; Logger.getEffectiveLevel walks from the logger up to the root
Logger_level(logger, root_level) ==
    IF logger = "root" THEN root_level ELSE NOTSET

getEffectiveLevel(logger, root_level) ==
    IF Logger_level(logger, root_level) # NOTSET
    THEN Logger_level(logger, root_level)
    ELSE Logger_level("root", root_level)

\* Logger.callHandlers: every handler of the root logger whose level admits
\* the record writes one line; with no handler at all the runtime's
\* last-resort handler writes the bare message of a WARNING or above
callHandlers(rec, hs) ==
    IF Len(hs) = 0
    THEN IF rec.levelno >= WARNING
         THEN <<[sink |-> "lastResort", rec |-> rec,
                 line |-> Formatter_format(<<"%(message)s">>, <<>>, rec)]>>
         ELSE <<>>
    ELSE LET acc == SelectSeq(hs, LAMBDA h : rec.levelno >= h.level)
         IN  [i \in 1..Len(acc) |->
                 [sink |-> acc[i].kind, rec |-> rec,
                  line |-> Handler_format(acc[i], rec)]]

\* Logger.log: the lines written for one record logged through `logger`
Logger_log(logger, rec, hs, root_level) ==
    IF rec.levelno >= getEffectiveLevel(logger, root_level)
    THEN callHandlers(rec, hs)
    ELSE <<>>

(***************************************************************************)
(* The state of the process.                                               *)
(***************************************************************************)
VARIABLES
    initialized,     \* LogZilla.__initialized
    root_level,      \* the level of the root logger
    handlers,        \* the handlers of the root logger, in the order added
    log_dir_exists,  \* whether <output_dir>/.log exists on the filesystem
    clock,           \* the wall clock, in seconds
    init_args,       \* the arguments of the calls of init_root_logger that returned
    init_outcomes,   \* how each call of init_root_logger ended, in order
    written,         \* the lines the last call wrote, in order, each with its sink
    last,            \* the last call: operation, outcome, return value and logging calls
    pc,              \* per thread: where it is in init_root_logger
    targs            \* per thread: the arguments and locals of its call

vars == <<initialized, root_level, handlers, log_dir_exists, clock, init_args,
          init_outcomes, written, last, pc, targs>>

\* the process-wide logging state the operations read and change
LogState ==
    [initialized |-> initialized, root_level |-> root_level,
     handlers |-> handlers, log_dir_exists |-> log_dir_exists]

(***************************************************************************)
(* The inputs the model draws from.                                        *)
(***************************************************************************)
FsOutcomes == {"ok", "mkdir_fails", "open_fails"}
Loggers == {"root", "module"}
Values == {"v1", "v2"}
Exceptions == {"ValueError"}

\* the levels init_root_logger and log_execution_time are called with
ArgLevels == {DEBUG, INFO, ERROR}

InitArgs ==
    [min_level : ArgLevels, console_level : ArgLevels, file_level : ArgLevels,
     console_color_on : BOOLEAN, file_color_on : BOOLEAN,
     no_console_file_info : BOOLEAN]

\* a wrapped callable: how it ends, what it returns or raises, how long it
\* runs and whether it logs a record of its own
Funcs ==
    [ends : {"return"}, value : Values, duration : 0..MaxDuration, logs : BOOLEAN]
    \cup [ends : {"raise"}, value : Exceptions, duration : 0..MaxDuration, logs : BOOLEAN]

NoFunc == [ends |-> "none", value |-> "None", duration |-> 0, logs |-> FALSE]
NoArgs == [min_level |-> NOTSET]

(***************************************************************************)
(* LogZilla.init_root_logger, line by line.                                *)
(***************************************************************************)
AlreadyInitializedError == "RuntimeError: LogZilla already initialized."

\* a faulty variant of already_initialized: the flag is not consulted
already_initialized_unchecked(st) == FALSE

\* line 68: the guard of the raise
already_initialized(st) == st.initialized

\* lines 79-80: the directory is made when it is missing; mkdir may fail
mkdir_raises(st, fs) == ~st.log_dir_exists /\ fs = "mkdir_fails"

after_mkdir(st) == [st EXCEPT !.log_dir_exists = TRUE]

\* line 82: opening the log file may fail
open_raises(fs) == fs = "open_fails"

\* a faulty variant of console_log_format: the two branches exchanged
console_log_format_inverted(a) ==
    IF a.no_console_file_info THEN default_prepend_info ELSE simple_prepend_info

\* lines 87-90
console_log_format(a) ==
    IF a.no_console_file_info THEN simple_prepend_info ELSE default_prepend_info

\* lines 92-95
console_formatter(a) ==
    MakeFormatter(a.console_color_on, console_log_format(a), date_format)

\* lines 97-100
file_formatter(a) ==
    MakeFormatter(a.file_color_on, default_prepend_info, date_format)

\* lines 82, 103, 109: the file handler, with its formatter and level
file_handler(a) ==
    [kind |-> "file",
     level |-> a.file_level, formatter |-> file_formatter(a)]

\* a faulty variant of errstream_handler: the console handler given the file's level
errstream_handler_file_level(a) ==
    [kind |-> "console",
     level |-> a.file_level, formatter |-> console_formatter(a)]

\* lines 102, 104, 110: the console handler, with its formatter and level
errstream_handler(a) ==
    [kind |-> "console",
     level |-> a.console_level, formatter |-> console_formatter(a)]

\* line 108
set_root_level(st, a) == [st EXCEPT !.root_level = a.min_level]

\* line 111
add_file_handler(st, a) ==
    [st EXCEPT !.handlers = Append(@, file_handler(a))]

\* a faulty variant of add_console_handler: the file handler added a second time
add_console_handler_adds_file(st, a) ==
    [st EXCEPT !.handlers = Append(@, file_handler(a))]

\* line 112
add_console_handler(st, a) ==
    [st EXCEPT !.handlers = Append(@, errstream_handler(a))]

\* a faulty variant of set_initialized: the flag is left as it was
set_initialized_skipped(st) == st

\* line 114
set_initialized(st) == [st EXCEPT !.initialized = TRUE]

\* line 115: the confirmation record
confirmation(now) ==
    LogRecord(INFO, <<"LogZilla: Root logger initialized.">>, now,
              "logzilla.py", "115")

\* a logging call as the last call's record keeps it: the record, the
\* logger, and the logging state the call was made in
LogCall(logger, rec, st) ==
    [logger |-> logger, rec |-> rec, initialized |-> st.initialized,
     root_level |-> st.root_level,
     sinks |-> [i \in 1..Len(st.handlers) |-> st.handlers[i].kind]]

\* lines 108-112: the root logger's level, then the two handlers
wire(st, a) ==
    add_console_handler(add_file_handler(set_root_level(st, a), a), a)

\* what a call comes to: the logging state it leaves, how it ends, the
\* logging calls it made and the lines they wrote
Result(st, outcome, rv, calls, lines) ==
    [st |-> st, outcome |-> outcome, rv |-> rv, calls |-> calls, written |-> lines]

\* a faulty variant of init_root_logger: the confirmation logged before the wiring
init_root_logger_confirms_first(st, a, fs, now) ==
    IF already_initialized(st)
    THEN Result(st, AlreadyInitializedError, "None", <<>>, <<>>)
    ELSE IF mkdir_raises(st, fs)
    THEN Result(st, "OSError", "None", <<>>, <<>>)
    ELSE IF open_raises(fs)
    THEN Result(after_mkdir(st), "OSError", "None", <<>>, <<>>)
    ELSE LET before == after_mkdir(st)
             done == set_initialized(wire(before, a))
         IN  Result(done, "returned", "None",
                    <<LogCall("root", confirmation(now), before)>>,
                    Logger_log("root", confirmation(now), before.handlers,
                               before.root_level))

\* a faulty variant of init_root_logger: the root logger's level set before the
\* directory is made and the file opened
init_root_logger_level_first(st, a, fs, now) ==
    IF already_initialized(st)
    THEN Result(st, AlreadyInitializedError, "None", <<>>, <<>>)
    ELSE IF mkdir_raises(st, fs)
    THEN Result(set_root_level(st, a), "OSError", "None", <<>>, <<>>)
    ELSE IF open_raises(fs)
    THEN Result(set_root_level(after_mkdir(st), a), "OSError", "None", <<>>, <<>>)
    ELSE LET done == set_initialized(wire(after_mkdir(st), a))
         IN  Result(done, "returned", "None",
                    <<LogCall("root", confirmation(now), done)>>,
                    Logger_log("root", confirmation(now), done.handlers,
                               done.root_level))

\* lines 68-115, for a call made at clock reading `now` when the filesystem
\* answers `fs`
init_root_logger(st, a, fs, now) ==
    IF already_initialized(st)
    THEN Result(st, AlreadyInitializedError, "None", <<>>, <<>>)
    ELSE IF mkdir_raises(st, fs)
    THEN Result(st, "OSError", "None", <<>>, <<>>)
    ELSE IF open_raises(fs)
    THEN Result(after_mkdir(st), "OSError", "None", <<>>, <<>>)
    ELSE LET done == set_initialized(wire(after_mkdir(st), a))
         IN  Result(done, "returned", "None",
                    <<LogCall("root", confirmation(now), done)>>,
                    Logger_log("root", confirmation(now), done.handlers,
                               done.root_level))

(***************************************************************************)
(* LogZilla.log_title.                                                     *)
(***************************************************************************)
\* fill_char * width
Rule(fill_char, width) == [i \in 1..width |-> fill_char]

\* str.center(width, fill_char), on a text of one token per character
center(text, width, fill_char) ==
    LET marg == width - Len(text)
        odd == IF marg % 2 = 1 /\ width % 2 = 1 THEN 1 ELSE 0
        left == marg \div 2 + odd
    IN  IF marg <= 0 THEN text
        ELSE Rule(fill_char, left) \o text \o Rule(fill_char, marg - left)

\* lines 120-123: three INFO records through the module logger
log_title(st, title, fill_char, width, now) ==
    LET r1 == LogRecord(INFO, Rule(fill_char, width), now, "logzilla.py", "121")
        r2 == LogRecord(INFO, center(<<" ", title, " ">>, width, fill_char), now,
                        "logzilla.py", "122")
        r3 == LogRecord(INFO, Rule(fill_char, width), now, "logzilla.py", "123")
    IN  Result(st, "returned", "None",
               <<LogCall("module", r1, st), LogCall("module", r2, st),
                 LogCall("module", r3, st)>>,
               Logger_log("module", r1, st.handlers, st.root_level)
                   \o Logger_log("module", r2, st.handlers, st.root_level)
                   \o Logger_log("module", r3, st.handlers, st.root_level))

(***************************************************************************)
(* The wrapper LogZilla.log_execution_time returns.                        *)
(***************************************************************************)
\* the record a wrapped callable logs itself, when it logs one
func_record(now) == LogRecord(WARNING, <<"working">>, now, "app.py", "9")

\* line 137: the elapsed-time record
elapsed_record(log_level, elapsed, now) ==
    LogRecord(log_level,
              <<"Execution Time of <", "func", ">: ">> \o timedelta_str(elapsed)
                  \o <<" hh:mm::ss">>,
              now, "logzilla.py", "137")

\* line 134: the call of func, at clock reading `now`
call_func(st, func, now) ==
    IF func.logs
    THEN Result(st, func.ends, func.value, <<LogCall("module", func_record(now), st)>>,
                Logger_log("module", func_record(now), st.handlers, st.root_level))
    ELSE Result(st, func.ends, func.value, <<>>, <<>>)

\* a faulty variant of wrapper: the elapsed time logged in a finally block
wrapper_finally(st, func, log_level, now) ==
    LET f == call_func(st, func, now)
        after == now + func.duration
        rec == elapsed_record(log_level, after - now, after)
    IN  Result(st, IF f.outcome = "raise" THEN f.rv ELSE "returned",
               IF f.outcome = "raise" THEN "None" ELSE f.rv,
               f.calls \o <<LogCall("module", rec, st)>>,
               f.written \o Logger_log("module", rec, st.handlers, st.root_level))

\* lines 133-138: an exception of func leaves the wrapper at line 134
wrapper(st, func, log_level, now) ==
    LET before == now
        f == call_func(st, func, now)
        after == now + func.duration
        elapsed == after - before
        rec == elapsed_record(log_level, elapsed, after)
    IN  IF f.outcome = "raise"
        THEN Result(st, f.rv, "None", f.calls, f.written)
        ELSE Result(st, "returned", f.rv,
                    f.calls \o <<LogCall("module", rec, st)>>,
                    f.written \o Logger_log("module", rec, st.handlers, st.root_level))

(***************************************************************************)
(* A logging call of the application, as in main (lines 181-186).          *)
(***************************************************************************)
logging_call(st, logger, level, now) ==
    LET rec == LogRecord(level, <<"message">>, now, "app.py", "7")
    IN  Result(st, "returned", "None", <<LogCall(logger, rec, st)>>,
               Logger_log(logger, rec, st.handlers, st.root_level))

(***************************************************************************)
(* The single-threaded process: every call runs to its end.                *)
(***************************************************************************)
Threads == {1, 2}

Init ==
    /\ initialized = FALSE
    /\ root_level = WARNING
    /\ handlers = <<>>
    /\ log_dir_exists \in BOOLEAN
    /\ clock = 0
    /\ init_args = <<>>
    /\ init_outcomes = <<>>
    /\ written = <<>>
    /\ last = [op |-> "none", outcome |-> "none", rv |-> "None", func |-> NoFunc,
               log_level |-> NOTSET, calls |-> <<>>]
    /\ pc = [t \in Threads |-> "idle"]
    /\ targs = [t \in Threads |-> NoArgs]

\* the call `op` ended as `r` says, `took` seconds after it began
Finish(op, r, func, log_level, took) ==
    /\ initialized' = r.st.initialized
    /\ root_level' = r.st.root_level
    /\ handlers' = r.st.handlers
    /\ log_dir_exists' = r.st.log_dir_exists
    /\ written' = r.written
    /\ last' = [op |-> op, outcome |-> r.outcome, rv |-> r.rv, func |-> func,
                log_level |-> log_level, calls |-> r.calls]
    /\ clock' = clock + took

CallInitRootLogger ==
    \E a \in InitArgs, fs \in IF initialized THEN {"ok"} ELSE FsOutcomes :
        /\ clock < MaxClock
        /\ LET r == init_root_logger(LogState, a, fs, clock)
           IN  /\ Finish("init_root_logger", r, NoFunc, NOTSET, 1)
               /\ init_args' = IF r.outcome = "returned"
                               THEN Append(init_args, a) ELSE init_args
               /\ init_outcomes' = Append(init_outcomes, r.outcome)
        /\ UNCHANGED <<pc, targs>>

CallLogTitle ==
    \E fill_char \in {"*", "#"}, width \in {2, 6} :
        /\ clock < MaxClock
        /\ Finish("log_title", log_title(LogState, "X", fill_char, width, clock),
                  NoFunc, NOTSET, 1)
        /\ UNCHANGED <<init_args, init_outcomes, pc, targs>>

CallWrapper ==
    \E func \in Funcs, log_level \in ArgLevels :
        /\ clock + func.duration < MaxClock
        /\ Finish("wrapper", wrapper(LogState, func, log_level, clock),
                  func, log_level, func.duration + 1)
        /\ UNCHANGED <<init_args, init_outcomes, pc, targs>>

CallLogging ==
    \E logger \in Loggers, level \in Levels :
        /\ clock < MaxClock
        /\ Finish("logging", logging_call(LogState, logger, level, clock),
                  NoFunc, NOTSET, 1)
        /\ UNCHANGED <<init_args, init_outcomes, pc, targs>>

Next == CallInitRootLogger \/ CallLogTitle \/ CallWrapper \/ CallLogging

Spec == Init /\ [][Next]_vars

(***************************************************************************)
(* Two threads, each calling init_root_logger once, a line at a time: the  *)
(* code takes no lock, so the lines of the two calls interleave.           *)
(***************************************************************************)
RaceArgs ==
    [min_level : {DEBUG, INFO}, console_level : {INFO}, file_level : {DEBUG, INFO},
     console_color_on : {TRUE}, file_color_on : {FALSE},
     no_console_file_info : BOOLEAN]

\* the logging state after thread t's step
Step(t, st, to) ==
    /\ initialized' = st.initialized
    /\ root_level' = st.root_level
    /\ handlers' = st.handlers
    /\ log_dir_exists' = st.log_dir_exists
    /\ pc' = [pc EXCEPT ![t] = to]

\* thread t's call ended as `r` says
End(t, r, to) ==
    /\ Step(t, r.st, to)
    /\ written' = r.written
    /\ last' = [op |-> "init_root_logger", outcome |-> r.outcome, rv |-> r.rv,
                func |-> NoFunc, log_level |-> NOTSET, calls |-> r.calls]
    /\ init_outcomes' = Append(init_outcomes, r.outcome)

T_call(t) ==
    \E a \in RaceArgs :
        /\ pc[t] = "idle"
        /\ targs' = [targs EXCEPT ![t] = a]
        /\ pc' = [pc EXCEPT ![t] = "line68"]
        /\ UNCHANGED <<initialized, root_level, handlers, log_dir_exists, clock,
                       init_args, init_outcomes, written, last>>

T_line68(t) ==
    /\ pc[t] = "line68"
    /\ IF already_initialized(LogState)
       THEN End(t, Result(LogState, AlreadyInitializedError, "None", <<>>, <<>>),
                "raised")
       ELSE Step(t, LogState, "line79") /\ UNCHANGED <<written, last, init_outcomes>>
    /\ UNCHANGED <<clock, init_args, targs>>

T_line79(t) ==
    \E fs \in FsOutcomes :
        /\ pc[t] = "line79"
        /\ IF mkdir_raises(LogState, fs)
           THEN End(t, Result(LogState, "OSError", "None", <<>>, <<>>), "raised")
           ELSE IF open_raises(fs)
           THEN End(t, Result(after_mkdir(LogState), "OSError", "None", <<>>, <<>>),
                    "raised")
           ELSE Step(t, after_mkdir(LogState), "line108")
                /\ UNCHANGED <<written, last, init_outcomes>>
        /\ UNCHANGED <<clock, init_args, targs>>

T_line108(t) ==
    /\ pc[t] = "line108"
    /\ Step(t, set_root_level(LogState, targs[t]), "line111")
    /\ UNCHANGED <<clock, init_args, init_outcomes, targs, written, last>>

T_line111(t) ==
    /\ pc[t] = "line111"
    /\ Step(t, add_file_handler(LogState, targs[t]), "line112")
    /\ UNCHANGED <<clock, init_args, init_outcomes, targs, written, last>>

T_line112(t) ==
    /\ pc[t] = "line112"
    /\ Step(t, add_console_handler(LogState, targs[t]), "line114")
    /\ UNCHANGED <<clock, init_args, init_outcomes, targs, written, last>>

T_line114(t) ==
    /\ pc[t] = "line114"
    /\ Step(t, set_initialized(LogState), "line115")
    /\ UNCHANGED <<clock, init_args, init_outcomes, targs, written, last>>

T_line115(t) ==
    /\ pc[t] = "line115"
    /\ End(t, Result(LogState, "returned", "None",
                     <<LogCall("root", confirmation(clock), LogState)>>,
                     Logger_log("root", confirmation(clock), handlers, root_level)),
           "returned")
    /\ init_args' = Append(init_args, targs[t])
    /\ UNCHANGED <<clock, targs>>

NextRace ==
    \E t \in Threads :
        \/ T_call(t)
        \/ T_line68(t)
        \/ T_line79(t)
        \/ T_line108(t)
        \/ T_line111(t)
        \/ T_line112(t)
        \/ T_line114(t)
        \/ T_line115(t)

SpecRace == Init /\ [][NextRace]_vars

(***************************************************************************)
(* Properties.                                                             *)
(***************************************************************************)
\* the arguments of the call that initialized the root logger
Cfg == init_args[1]

\* how many handlers of a kind the root logger has
NumSinks(kind) == Len(SelectSeq(handlers, LAMBDA h : h.kind = kind))

\* how many lines the last call wrote to a sink for a record
Delivered(sink, rec) ==
    Len(SelectSeq(written, LAMBDA e : e.sink = sink /\ e.rec = rec))

Admits(threshold, rec) == rec.levelno >= threshold

BoolToNat(b) == IF b THEN 1 ELSE 0

EscapeCodes ==
    {"ESC[37;20m", "ESC[32;20m", "ESC[34;20m", "ESC[36;20m", "ESC[33;20m",
     "ESC[31;20m", "ESC[31;1m", "ESC[0m"}

\* the color the specification gives each level
ExpectedColor(l) ==
    CASE l = DEBUG -> "ESC[36;20m"
      [] l = INFO -> "ESC[32;20m"
      [] l = WARNING -> "ESC[33;20m"
      [] l = ERROR -> "ESC[31;20m"
      [] l = CRITICAL -> "ESC[31;1m"

HasEscape(text) == \E i \in 1..Len(text) : text[i] \in EscapeCodes

\* the line holds the segment <filename>:<lineno> of its record
HasSourceSegment(e) ==
    \E i \in 1..(Len(e.line) - 2) :
        /\ e.line[i] = e.rec.filename
        /\ e.line[i + 1] = ":"
        /\ e.line[i + 2] = e.rec.lineno

\* the line holds neither the file name nor the line number of its record
HasNoSourceInfo(e) ==
    \A i \in 1..Len(e.line) : e.line[i] \notin {e.rec.filename, e.rec.lineno}

\* the text of a line before its first ": ", any leading color code left out
RECURSIVE UpTo(_, _)
UpTo(text, sep) ==
    IF text = <<>> \/ Head(text) = sep
    THEN <<>>
    ELSE <<Head(text)>> \o UpTo(Tail(text), sep)

Timestamp(line) ==
    UpTo(IF line # <<>> /\ Head(line) \in EscapeCodes THEN Tail(line) ELSE line, ": ")

\* the instant n written as YYYY/MM/DD HH:MM:SS
SlashStamp(n) ==
    <<TimeOf(n).Y, "/", TimeOf(n).m, "/", TimeOf(n).d, " ",
      TimeOf(n).H, ":", TimeOf(n).M, ":", TimeOf(n).S>>

\* the lines of the last call that a sink attached by LogZilla wrote
SinkLines == SelectSeq(written, LAMBDA e : e.sink \in {"console", "file"})

\* the calls of init_root_logger so far
Calls == 1..Len(init_outcomes)

\* C1 (as stated): of any two calls of init_root_logger made in the process,
\* the second fails with the already-initialized error.
C1_SecondCallAlwaysFails ==
    Len(init_outcomes) >= 2 => init_outcomes[2] = AlreadyInitializedError

\* C1 (amended): once a call of init_root_logger has returned, every later
\* call fails with the already-initialized error, whatever its arguments,
\* and the initialized flag stays true.
C1_CallAfterSuccessFails ==
    /\ \A i \in Calls, j \in Calls :
           (i < j /\ init_outcomes[i] = "returned")
               => init_outcomes[j] = AlreadyInitializedError
    /\ (\E i \in Calls : init_outcomes[i] = "returned") => initialized

C1_Witness ==
    /\ Len(init_outcomes) >= 2
    /\ init_outcomes[1] = "returned"
    /\ init_outcomes[2] = AlreadyInitializedError
    /\ initialized

\* C2: after a successful init_root_logger(min_level, console_level,
\* file_level), a record of level L logged through the root or the module
\* logger is written once by the console sink if L >= min_level and
\* L >= console_level and not at all otherwise, and likewise by the file sink
\* with file_level; nothing else writes it.
C2_LevelFiltering ==
    initialized =>
        \A i \in 1..Len(last.calls) :
            LET rec == last.calls[i].rec
            IN  /\ Delivered("console", rec)
                       = BoolToNat(Admits(Cfg.min_level, rec)
                                       /\ Admits(Cfg.console_level, rec))
                /\ Delivered("file", rec)
                       = BoolToNat(Admits(Cfg.min_level, rec)
                                       /\ Admits(Cfg.file_level, rec))
                /\ Delivered("lastResort", rec) = 0

\* a record at or above min_level and file_level and below console_level
\* reached the file and not the console
C2_Witness ==
    /\ initialized
    /\ last.op = "logging"
    /\ \E i \in 1..Len(last.calls) :
           LET rec == last.calls[i].rec
           IN  /\ Admits(Cfg.min_level, rec)
               /\ Admits(Cfg.file_level, rec)
               /\ ~Admits(Cfg.console_level, rec)
               /\ Delivered("file", rec) = 1
               /\ Delivered("console", rec) = 0

\* C3: between calls made from one thread the root logger has at most one
\* file sink and at most one console sink, and exactly one of each if and
\* only if the initialized flag is true.
C3_OneSinkOfEach ==
    /\ NumSinks("file") <= 1
    /\ NumSinks("console") <= 1
    /\ initialized <=> (NumSinks("file") = 1 /\ NumSinks("console") = 1)
    /\ Len(handlers) = NumSinks("file") + NumSinks("console")

\* a second init_root_logger, after log_title or a wrapped call, added no sink
C3_Witness ==
    /\ initialized
    /\ Len(init_outcomes) = 2
    /\ last.op \in {"log_title", "wrapper", "logging"}
    /\ NumSinks("file") = 1
    /\ NumSinks("console") = 1

\* the logging call made at line 137
IsElapsed(c) == c.rec.lineno = "137"

C5_Confirmation ==
    last.op = "init_root_logger" =>
        IF last.outcome = "returned"
        THEN /\ Len(last.calls) = 1
             /\ last.calls[1].rec.msg = <<"LogZilla: Root logger initialized.">>
             /\ last.calls[1].rec.levelno = INFO
             /\ last.calls[1].logger = "root"
             /\ last.calls[1].initialized
             /\ last.calls[1].sinks = <<"file", "console">>
             /\ last.calls[1].root_level = Cfg.min_level
             /\ Delivered("file", last.calls[1].rec)
                    = BoolToNat(Cfg.min_level <= INFO /\ Cfg.file_level <= INFO)
             /\ Delivered("console", last.calls[1].rec)
                    = BoolToNat(Cfg.min_level <= INFO /\ Cfg.console_level <= INFO)
             /\ Len(written) = Delivered("file", last.calls[1].rec)
                                   + Delivered("console", last.calls[1].rec)
        ELSE /\ last.calls = <<>>
             /\ written = <<>>

\* the confirmation written by both sinks
C5_Witness ==
    /\ last.op = "init_root_logger"
    /\ last.outcome = "returned"
    /\ Len(written) = 2
    /\ written[1].sink = "file"
    /\ written[2].sink = "console"

\* C6: with no_console_file_info true no line of the console sink holds the
\* file name or the line number of its record, and every line of the file
\* sink holds the segment <filename>:<lineno>, for either value of the flag
\* and of the two color toggles.
C6_SourceInfo ==
    \A i \in 1..Len(written) :
        /\ (written[i].sink = "console" /\ Cfg.no_console_file_info)
               => HasNoSourceInfo(written[i])
        /\ written[i].sink = "file" => HasSourceSegment(written[i])

\* one record on a colored console without source information and in a
\* colored file with it
C6_Witness ==
    /\ initialized
    /\ Cfg.no_console_file_info
    /\ Cfg.console_color_on
    /\ Cfg.file_color_on
    /\ \E i \in 1..Len(written), j \in 1..Len(written) :
           /\ written[i].sink = "file"
           /\ written[j].sink = "console"
           /\ written[i].rec = written[j].rec

\* C7: every line of the console sink or the file sink carries its timestamp
\* as YYYY/MM/DD HH:MM:SS, for every level and either value of the sink's
\* color toggle.
C7_TimestampFormat ==
    \A i \in 1..Len(SinkLines) :
        Timestamp(SinkLines[i].line) = SlashStamp(SinkLines[i].rec.created)

\* C8: for every level, the template a colored sink renders a record of that
\* level with is the sink's base template between the level's color code
\* (cyan, green, yellow, red, bold red for DEBUG, INFO, WARNING, ERROR,
\* CRITICAL) and the reset code, and so begins and ends every line it writes;
\* the template and the lines of an uncolored sink hold no escape code.
C8_ColorTemplates ==
    /\ \A i \in 1..Len(handlers) :
           LET f == handlers[i].formatter
           IN  /\ ~HasEscape(f.fmt)
               /\ f.custom =>
                      \A l \in Levels :
                          log_fmt(f.fmt, l)
                              = <<ExpectedColor(l)>> \o f.fmt \o <<"ESC[0m">>
    /\ \A i \in 1..Len(SinkLines) :
           LET e == SinkLines[i]
               n == Len(e.line)
               colored == IF e.sink = "console"
                          THEN Cfg.console_color_on ELSE Cfg.file_color_on
           IN  IF colored
               THEN /\ e.line[1] = ExpectedColor(e.rec.levelno)
                    /\ e.line[n] = "ESC[0m"
                    /\ ~HasEscape(SubSeq(e.line, 2, n - 1))
               ELSE ~HasEscape(e.line)

\* an ERROR record on a colored console and in an uncolored file
C8_Witness ==
    /\ initialized
    /\ Cfg.console_color_on
    /\ ~Cfg.file_color_on
    /\ \E i \in 1..Len(written), j \in 1..Len(written) :
           /\ written[i].sink = "file"
           /\ written[j].sink = "console"
           /\ written[i].rec.levelno = ERROR
           /\ written[j].rec.levelno = ERROR

\* where a thread is once it has executed line 111, and line 112
After111 == {"line112", "line114", "line115", "returned"}
After112 == {"line114", "line115", "returned"}

\* C9: with two threads in init_root_logger, a thread that has returned
\* leaves the flag true, and the root logger holds one file sink and one
\* console sink for every thread that has passed lines 111 and 112: two of
\* each when both threads passed the check at line 68.
C9_RaceFlagAndSinks ==
    /\ \A t \in Threads : pc[t] \in {"line115", "returned"} => initialized
    /\ NumSinks("file") = Cardinality({t \in Threads : pc[t] \in After111})
    /\ NumSinks("console") = Cardinality({t \in Threads : pc[t] \in After112})

\* both calls returned and the root logger has two sinks of each kind
C9_Witness ==
    /\ \A t \in Threads : pc[t] = "returned"
    /\ init_outcomes = <<"returned", "returned">>
    /\ NumSinks("file") = 2
    /\ NumSinks("console") = 2
    /\ initialized

\* C10: a call of init_root_logger that fails, with the already-initialized
\* error or an OSError of mkdir or of opening the log file, leaves the flag,
\* the root logger's level and its handlers as they were and writes nothing.
C10_FailedCallChangesNothing ==
    [][(/\ Len(init_outcomes') = Len(init_outcomes) + 1
        /\ init_outcomes'[Len(init_outcomes')] # "returned")
           => /\ initialized' = initialized
              /\ root_level' = root_level
              /\ handlers' = handlers
              /\ written' = <<>>
              /\ last'.outcome \in {AlreadyInitializedError, "OSError"}]_vars

\* a call that returned after a call that failed on the filesystem
C10_Witness ==
    /\ init_outcomes = <<"OSError", "returned">>
    /\ initialized
    /\ NumSinks("file") = 1

====
